---------------------------- MODULE Spec2Model ----------------------------
(***************************************************************************)
(* A model of the MSYS2 packager (msys2-packager/src/packager.rs) and of   *)
(* the helpers it calls (msys2-gtk-packager/src/util.rs, msys2/src/lib.rs).*)
(*                                                                         *)
(* Strings are TLA+ strings; TLC evaluates Len, SubSeq and \o on them, so  *)
(* the string functions of the source are computed character by character. *)
(* Paths are strings whose separator is "/"; the paths are read with the   *)
(* rules of std::path on Windows, the platform the packager runs on.       *)
(***************************************************************************)
EXTENDS Naturals, Sequences, FiniteSets, TLC

---------------------------------------------------------------------------
(* Strings                                                                 *)

Ch(s, i) == SubSeq(s, i, i)

DropFirst(s, n) == SubSeq(s, n + 1, Len(s))

DropLast(s, n) == SubSeq(s, 1, Len(s) - n)

StartsWithStr(s, p) == Len(s) >= Len(p) /\ SubSeq(s, 1, Len(p)) = p

EndsWithStr(s, p) == Len(s) >= Len(p) /\ DropFirst(s, Len(s) - Len(p)) = p

UpperLetters == "ABCDEFGHIJKLMNOPQRSTUVWXYZ"

LowerLetters == "abcdefghijklmnopqrstuvwxyz"

Digits == "0123456789"

\* The characters of a string, as a set.
CharsOf(alphabet) == {Ch(alphabet, k) : k \in 1..Len(alphabet)}

UpperSet == CharsOf(UpperLetters)

LowerSet == CharsOf(LowerLetters)

DigitSet == CharsOf(Digits)

\* u8::to_ascii_lowercase, as a table over the upper-case letters.
LowerOf ==
    [c \in UpperSet |-> Ch(LowerLetters, CHOOSE k \in 1..Len(UpperLetters) : Ch(UpperLetters, k) = c)]

LowerChar(c) == IF c \in UpperSet THEN LowerOf[c] ELSE c

RECURSIVE to_ascii_lowercase(_)
to_ascii_lowercase(s) ==
    IF s = "" THEN "" ELSE LowerChar(Ch(s, 1)) \o to_ascii_lowercase(DropFirst(s, 1))

\* str::trim_end_matches: the pattern is removed from the end repeatedly.
RECURSIVE trim_end_matches(_, _)
trim_end_matches(s, p) ==
    IF p # "" /\ EndsWithStr(s, p) THEN trim_end_matches(DropLast(s, Len(p)), p) ELSE s

\* str::trim_start_matches
RECURSIVE trim_start_matches(_, _)
trim_start_matches(s, p) ==
    IF p # "" /\ StartsWithStr(s, p) THEN trim_start_matches(DropFirst(s, Len(p)), p) ELSE s

\* The positions of the character c in s.
Positions(s, c) == {k \in 1..Len(s) : Ch(s, k) = c}

Max(S) == CHOOSE m \in S : \A k \in S : k <= m

\* str::split(c): the pieces between the occurrences of c, empty ones included.
RECURSIVE split(_, _)
split(s, c) ==
    IF Positions(s, c) = {}
    THEN <<s>>
    ELSE LET k == Max(Positions(s, c))
         IN  Append(split(SubSeq(s, 1, k - 1), c), DropFirst(s, k))

\* Iterator::filter(|s| !s.is_empty()) on a sequence of strings.
RECURSIVE NonEmptyOnly(_)
NonEmptyOnly(q) ==
    IF q = <<>> THEN <<>>
    ELSE IF Head(q) # "" THEN <<Head(q)>> \o NonEmptyOnly(Tail(q))
         ELSE NonEmptyOnly(Tail(q))

Range(q) == {q[k] : k \in 1..Len(q)}

---------------------------------------------------------------------------
(* The classifier of DLL names (util.rs)                                   *)

SystemDlls ==
    { "kernel32", "ole32", "oleaut32", "mfplat", "user32", "mf", "mfreadwrite",
      "bcrypt", "advapi32", "shell32", "dnsapi", "gdi32", "imm32", "comdlg32",
      "opengl32", "shlwapi", "comctl32", "winspool", "version", "cfgmgr32",
      "kernelbase", "usp10", "msvfw32", "msimg32", "winmm", "rpcrt4", "userenv",
      "hid", "wsock32", "ntdll", "d3d11", "msvcrt", "gdiplus", "avicap32",
      "crypt32", "setupapi", "iphlpapi", "ws2_32", "win32u", "ncrypt", "dwmapi",
      "dxgi" }

\* A classifier that compares the name as it is spelled.
is_system_dll_as_spelled(name) ==
    trim_end_matches(trim_end_matches(name, ".dll"), ".drv") \in SystemDlls

is_system_dll(name) ==
    LET lowered == to_ascii_lowercase(name)
        trimmed == trim_end_matches(trim_end_matches(lowered, ".dll"), ".drv")
    IN  trimmed \in SystemDlls

\* The largest u32, as its decimal digits (TLC's integers are narrower).
U32MaxDigits == "4294967295"

RECURSIVE DigitsLessEq(_, _)
\* a <= b for two digit strings of the same length.
DigitsLessEq(a, b) ==
    IF a = "" THEN TRUE
    ELSE LET x == CHOOSE k \in 1..Len(Digits) : Ch(Digits, k) = Ch(a, 1)
             y == CHOOSE k \in 1..Len(Digits) : Ch(Digits, k) = Ch(b, 1)
         IN  IF x # y THEN x < y ELSE DigitsLessEq(DropFirst(a, 1), DropFirst(b, 1))

\* A parse that accepts digits only, of any length.
ParsesAsDigits(s) == s # "" /\ \A k \in 1..Len(s) : Ch(s, k) \in DigitSet

\* str::parse::<u32>() is Ok: an optional "+", then one or more digits whose
\* value fits 32 bits.
ParsesAsU32(s) ==
    LET body == IF StartsWithStr(s, "+") THEN DropFirst(s, 1) ELSE s
        sig  == trim_start_matches(body, "0")
    IN  /\ body # ""
        /\ \A k \in 1..Len(body) : Ch(body, k) \in DigitSet
        /\ \/ Len(sig) < Len(U32MaxDigits)
           \/ Len(sig) = Len(U32MaxDigits) /\ DigitsLessEq(sig, U32MaxDigits)

\* char::is_alphanumeric, on the ASCII characters the model uses.
is_alphanumeric(c) == c \in UpperSet \/ c \in LowerSet \/ c \in DigitSet

is_api_set_dll(name) ==
    IF StartsWithStr(name, "api-") \/ StartsWithStr(name, "ext-")
    THEN LET stripped == trim_end_matches(DropFirst(name, Len("api-")), ".dll")
         IN  IF Positions(stripped, "l") = {}
             THEN FALSE
             ELSE LET k      == Max(Positions(stripped, "l"))
                      front  == SubSeq(stripped, 1, k - 1)
                      rest   == DropFirst(stripped, k)
                      n_iter == NonEmptyOnly(split(rest, "-"))
                  IN  /\ Len(n_iter) >= 3
                      /\ \A t \in 1..3 : ParsesAsU32(n_iter[t])
                      /\ Len(n_iter) = 3
                      /\ \A t \in 1..Len(front) :
                            is_alphanumeric(Ch(front, t)) \/ Ch(front, t) = "-"
    ELSE FALSE

---------------------------------------------------------------------------
(* Paths (std::path on Windows, separator "/")                             *)

\* A drive prefix "X:" at the start of the path, or "".
PrefixOf(p) ==
    IF Len(p) >= 2 /\ Ch(p, 2) = ":"
          /\ (Ch(p, 1) \in UpperSet \/ Ch(p, 1) \in LowerSet)
    THEN SubSeq(p, 1, 2)
    ELSE ""

\* Path::has_root: a separator follows the prefix.
has_root(p) == StartsWithStr(DropFirst(p, Len(PrefixOf(p))), "/")

\* Path::is_absolute on Windows: a prefix and a root.
is_absolute(p) == PrefixOf(p) # "" /\ has_root(p)

\* A check of dest that lets every path pass.
AnyPathIsRelative(p) == TRUE

is_relative(p) == ~is_absolute(p)

RECURSIVE BodyComponents(_)
\* The components of the pieces after the prefix and the root: empty pieces
\* and "." pieces are normalized away.
BodyComponents(pieces) ==
    IF pieces = <<>> THEN <<>>
    ELSE LET piece == Head(pieces)
             rest  == BodyComponents(Tail(pieces))
         IN  IF piece = "" \/ piece = "." THEN rest
             ELSE IF piece = ".."
                  THEN <<[kind |-> "ParentDir", name |-> ".."]>> \o rest
                  ELSE <<[kind |-> "Normal", name |-> piece]>> \o rest

\* Path::components
components(p) ==
    LET prefix == PrefixOf(p)
        after  == DropFirst(p, Len(prefix))
        pieces == split(after, "/")
        curdir == ~has_root(p) /\ Head(pieces) = "."
    IN  (IF prefix # "" THEN <<[kind |-> "Prefix", name |-> prefix]>> ELSE <<>>)
        \o (IF has_root(p) THEN <<[kind |-> "RootDir", name |-> "/"]>> ELSE <<>>)
        \o (IF curdir THEN <<[kind |-> "CurDir", name |-> "."]>> ELSE <<>>)
        \o BodyComponents(pieces)

\* Path::file_name: the last component when it is a normal one, else None.
NoFileName == [kind |-> "None", name |-> ""]

file_name(p) ==
    LET cs == components(p)
    IN  IF cs # <<>> /\ cs[Len(cs)].kind = "Normal" THEN cs[Len(cs)] ELSE NoFileName

\* Path::starts_with: base's components are a prefix of p's components.
starts_with(p, base) ==
    LET cs == components(p)
        bs == components(base)
    IN  Len(bs) <= Len(cs) /\ SubSeq(cs, 1, Len(bs)) = bs

\* Path::join (PathBuf::push on Windows).
join(base, p) ==
    IF is_absolute(p) \/ PrefixOf(p) # "" THEN p
    ELSE IF has_root(p) THEN PrefixOf(base) \o p
    ELSE IF base = "" \/ EndsWithStr(base, "/") THEN base \o p
    ELSE base \o "/" \o p

\* Path::parent: the path without its last component, or None (no parent)
\* for a root or an empty path.
NoParent == "<none>"

RECURSIVE Rejoin(_)
Rejoin(cs) ==
    IF cs = <<>> THEN ""
    ELSE IF cs[Len(cs)].kind \in {"Prefix", "RootDir"}
         THEN Rejoin(SubSeq(cs, 1, Len(cs) - 1)) \o cs[Len(cs)].name
         ELSE join(Rejoin(SubSeq(cs, 1, Len(cs) - 1)), cs[Len(cs)].name)

parent(p) ==
    LET cs == components(p)
    IN  IF cs = <<>> \/ cs[Len(cs)].kind \in {"Prefix", "RootDir"}
        THEN NoParent
        ELSE Rejoin(SubSeq(cs, 1, Len(cs) - 1))

---------------------------------------------------------------------------
(* The file system                                                         *)

\* The directory the process runs in.
Cwd == "C:/proj"

RECURSIVE Resolve(_, _)
\* The normal components under the drive root that the components cs name,
\* starting from the directory stack.
Resolve(stack, cs) ==
    IF cs = <<>> THEN stack
    ELSE LET c == Head(cs)
         IN  IF c.kind = "Normal" THEN Resolve(Append(stack, c.name), Tail(cs))
             ELSE IF c.kind = "ParentDir"
                  THEN Resolve(IF stack = <<>> THEN stack ELSE DropLast(stack, 1), Tail(cs))
                  ELSE IF c.kind = "RootDir" THEN Resolve(<<>>, Tail(cs))
                       ELSE Resolve(stack, Tail(cs))

RECURSIVE Joined(_)
Joined(names) == IF names = <<>> THEN "" ELSE "/" \o Head(names) \o Joined(Tail(names))

\* The file a path names: NTFS resolves "." and ".." and ignores letter case.
FsKey(p) ==
    LET drive == IF PrefixOf(p) # "" THEN PrefixOf(p) ELSE PrefixOf(Cwd)
        start == IF has_root(p) THEN <<>> ELSE Resolve(<<>>, components(Cwd))
    IN  to_ascii_lowercase(drive \o Joined(Resolve(start, components(p))))

---------------------------------------------------------------------------
(* Bounds of the model                                                     *)

\* The most entries the caller registers with add_file.
MaxRegistered == 2

\* The most entries the staging list holds; the closure stops appending there.
MaxStaged == 5

\* The most calls of package() on one Packager.
MaxRuns == 2

---------------------------------------------------------------------------
(* The world the packager runs in                                          *)

\* Msys2Environment::get_prefix
get_prefix(env) ==
    CASE env = "Msys"       -> "/usr"
      [] env = "Mingw64"    -> "/mingw64"
      [] env = "Ucrt64"     -> "/ucrt64"
      [] env = "Clang64"    -> "/clang64"
      [] env = "Mingw32"    -> "/mingw32"
      [] env = "Clang32"    -> "/clang32"
      [] env = "ClangArm64" -> "/clangarm64"

\* Option<Msys2Environment>::None, and the value before the mapping is called.
Unsupported == "<unsupported>"

NotChosen == "<not chosen>"

\* A mapping that goes by the architecture and the ABI and ignores the vendor.
target_triple_by_arch_and_abi(triple) ==
    CASE triple \in {"aarch64-pc-windows-gnullvm", "aarch64-uwp-windows-gnullvm"} -> "ClangArm64"
      [] triple \in {"i686-pc-windows-gnu", "i686-uwp-windows-gnu"} -> "Mingw32"
      [] triple = "x86_64-pc-windows-gnu" -> "Mingw64"
      [] triple \in {"x86_64-pc-windows-gnullvm", "x86_64-uwp-windows-gnullvm"} -> "Clang64"
      [] triple = "x86_64-uwp-windows-gnu" -> "Ucrt64"
      [] OTHER -> Unsupported

\* util::target_triple_to_msys2_environment
target_triple_to_msys2_environment(triple) ==
    CASE triple = "aarch64-pc-windows-gnullvm" -> "ClangArm64"
      [] triple = "aarch64-pc-windows-msvc"    -> Unsupported
      [] triple = "aarch64-uwp-windows-msvc"   -> Unsupported
      [] triple = "i586-pc-windows-msvc"       -> Unsupported
      [] triple = "i686-pc-windows-gnu"        -> "Mingw32"
      [] triple = "i686-pc-windows-msvc"       -> Unsupported
      [] triple = "i686-uwp-windows-gnu"       -> Unsupported
      [] triple = "i686-uwp-windows-msvc"      -> Unsupported
      [] triple = "thumbv7a-pc-windows-msvc"   -> Unsupported
      [] triple = "thumbv7a-uwp-windows-msvc"  -> Unsupported
      [] triple = "x86_64-pc-windows-gnu"      -> "Mingw64"
      [] triple = "x86_64-pc-windows-gnullvm"  -> "Clang64"
      [] triple = "x86_64-pc-windows-msvc"     -> Unsupported
      [] triple = "x86_64-uwp-windows-gnu"     -> "Ucrt64"
      [] triple = "x86_64-uwp-windows-msvc"    -> Unsupported
      [] OTHER                                 -> Unsupported

\* The target triples of the command line: the Windows targets of every
\* architecture, vendor and ABI, some of them in upper case, and strings
\* that are no Windows target.
TripleArchs == {"aarch64", "i586", "i686", "thumbv7a", "x86_64", "X86_64"}

TripleVendors == {"pc", "uwp"}

TripleAbis == {"gnu", "gnullvm", "msvc", "GNU"}

Triples ==
    {a \o "-" \o v \o "-windows-" \o abi : a \in TripleArchs, v \in TripleVendors, abi \in TripleAbis}
    \cup {"", "x86_64-unknown-linux-gnu", "x86_64-pc-windows", "mingw64", "Msys"}

\* Packager::new's arguments.
msys2_installation_path == "C:/msys64"

msys2_environment == "Ucrt64"

\* The target triple of the command line that gives this environment.
msys2_target == "x86_64-uwp-windows-gnu"

out_dir == "C:/out"

\* Packager::get_msys2_environment_path
get_msys2_environment_path ==
    join(msys2_installation_path, trim_start_matches(get_prefix(msys2_environment), "/"))

\* The files on disk before the packager runs: the application that was
\* built, two libraries of the MSYS2 environment, and a DLL of Windows.
AppExe == "C:/proj/target/app.exe"

LibA == "C:/msys64/ucrt64/lib/a.dll"

LibB == "C:/msys64/ucrt64/lib/b.dll"

WinDll == "C:/Windows/System32/kernel32.dll"

SourceFiles == {AppExe, LibA, LibB, WinDll}

ApiSetName == "api-ms-win-core-synch-l1-2-0.dll"

\* The import tables the files of the world may have: the worlds of the
\* closure, and the few of them the other specifications keep.
ClosureTables(f) ==
    CASE f = AppExe -> { {}, {"a"}, {"a.dll"}, {"b.dll", "KERNEL32.dll", ApiSetName}, {"zz.dll"} }
      [] f = LibA   -> { {}, {"a"}, {"b.dll"}, {"app.exe"} }
      [] f = LibB   -> { {}, {"a.dll", "user32"}, {"app.exe"} }
      [] OTHER      -> { {} }

ImportTables(f) ==
    CASE f = AppExe -> { {"a"}, {"b.dll", "KERNEL32.dll", ApiSetName}, {"a.dll", "zz.dll"} }
      [] OTHER      -> { {} }

\* What add_file is called with.
None == "<none>"

SrcChoices == {None, AppExe, WinDll}

DestChoices == {"app.exe", "a", "sub/b.dll", "..", ""}

FlagChoices == { {"EXE", "UPX"} }

ClosureSrcs == {None, AppExe}

ClosureDests == {"app.exe", "a"}

ClosureFlags == { {"EXE", "UPX"}, {} }

\* What the output directory may hold before the first run.
OldFile == [data |-> "old", packed |-> FALSE]

OldOutputs == { {}, {"c:/out/a"} }

EmptyOutput == { {} }

\* The worlds and the registrations of the runs that are repeated.
RerunTables(f) == CASE f = AppExe -> { {"a"}, {"a.dll"}, {"b.dll", "KERNEL32.dll"} }
                    [] f = LibB   -> { {}, {"a.dll"} }
                    [] OTHER      -> { {} }

RerunSrcs == {None, AppExe}

RerunDests == {"app.exe", "a", "sub/b.dll"}

\* The world and the registrations of the runs that check dest and src: a
\* dest that is absolute, a dest with a root and no drive, a dest that
\* starts with a parent directory, and a src that is not on disk.
MissingExe == "C:/proj/target/gone.exe"

EntryTables(f) == CASE f = AppExe -> { {"a.dll"} }
                    [] OTHER      -> { {} }

EntrySrcs == {None, AppExe, MissingExe}

EntryDests == {"a", "app.exe", "C:/abs/app.exe", "/app.exe", "../up.exe"}

\* The registrations of the runs that fail in the copy loop and are repeated:
\* an entry that is scanned and compressed, and one that is only copied.
RollbackDests == {"a", "app.exe"}

RollbackFlags == { {"EXE", "UPX"}, {"UPX"} }

\* The world and the registrations of the runs that check the resolver: the
\* names it is called with, by add_file and by the closure.
ResolverTables(f) == CASE f = AppExe -> { {}, {"foo"} }
                       [] OTHER      -> { {} }

ResolverDests == {"foo", "foo.dll"}

\* The worlds of the runs that check the switch of the closure and what the
\* closure appends: an application that imports only DLLs of Windows, or a
\* library, or a library and a DLL of Windows.
SwitchTables(f) ==
    CASE f = AppExe -> { {"KERNEL32.dll", ApiSetName}, {"a.dll"}, {"b.dll", "user32"} }
      [] f = LibA   -> { {}, {"b.dll"} }
      [] OTHER      -> { {} }

\* The worlds of the runs that check the classifier of API sets: the one
\* name the application imports.
ApiSetTests ==
    { ApiSetName, "ext-ms-win-foo-l1-1-0.dll", "api-ms-win-core-synch.dll",
      "api-ms-win-core-synch-l1-2-0-0.dll", "ms-win-core-synch-l1-2-0.dll", "api-foo.dll",
      "api-l1-2-0", "api-x-l1--2-0.dll", "api-x-l1-2.dll", "api-x_y-l1-2-0.dll",
      "api-x-l1-2-a.dll", "api-x-L1-2-0.dll", "api-x-l1-2-4294967295.dll",
      "api-x-l1-2-4294967296.dll", "api-x-l+1-2-0.dll", "api-x-l1-2-0.dll.dll" }

ApiSetTables(f) == CASE f = AppExe -> {{n} : n \in ApiSetTests}
                     [] OTHER      -> { {} }

ApiSetSrcs == {AppExe}

ApiSetDests == {"app.exe"}

\* The worlds of the runs that check the classifiers on the spelling of a
\* name: the application imports a name in several spellings, or names that
\* are close to the name of a system DLL.
UpperApiSetName == "API-MS-WIN-CORE-SYNCH-L1-2-0.DLL"

CaseTables(f) ==
    CASE f = AppExe -> { {ApiSetName, UpperApiSetName},
                         {ApiSetName, "api-ms-win-core-synch-L1-2-0.dll"},
                         {"KERNEL32.dll", "kernel32.dll", "Kernel32.DLL", "kernel32"},
                         {"winspool.drv", "WINSPOOL.DRV", "msvcrt.dll"},
                         {"libgstplayback.dll"},
                         {"kernel32x.dll", "libkernel32.dll", "kernel32.exe"},
                         {"kernel32.dll.dll", "kernel32.drv"},
                         {"kernel32.dll.drv"} }
      [] OTHER      -> { {} }

\* The registrations of the runs that check the compressor: the flags with
\* and without UPX, and with and without a type.
UpxFlags == { {"EXE", "UPX"}, {"EXE"}, {"UPX"} }

RECURSIVE Ancestors(_)
\* The keys of the directories above the file or directory a key names.
Ancestors(key) ==
    LET cut == Positions(key, "/")
    IN  IF cut = {} THEN {}
        ELSE LET up == SubSeq(key, 1, Max(cut) - 1) IN {up} \cup Ancestors(up)

---------------------------------------------------------------------------
(* Tables                                                                  *)
(* The string functions above are evaluated once for every name and path   *)
(* of the model and kept in tables; the operations below read the tables.  *)

ImportNames ==
    UNION UNION {ClosureTables(f) \cup ImportTables(f) \cup RerunTables(f)
                 \cup EntryTables(f) \cup ResolverTables(f) \cup SwitchTables(f)
                 \cup ApiSetTables(f) \cup CaseTables(f) : f \in SourceFiles}

AllDests ==
    DestChoices \cup ClosureDests \cup RerunDests \cup EntryDests \cup ResolverDests
    \cup ImportNames

\* A resolver that looks into bin before lib.
LookupDirsBinFirst == <<"bin", "lib">>

\* const PATH_EXT and the directories of lookup_msys2_file, in probing order.
PATH_EXT == <<"dll", "exe">>

LookupDirs == <<"lib", "bin">>

\* The paths lookup_msys2_file probes in one directory.
ProbesIn(dir, name) ==
    LET path == join(join(get_msys2_environment_path, dir), name)
    IN  <<path>> \o [e \in 1..Len(PATH_EXT) |-> path \o "." \o PATH_EXT[e]]

Probes(name) == ProbesIn(LookupDirs[1], name) \o ProbesIn(LookupDirs[2], name)

ProbeTable == [n \in AllDests |-> Probes(n)]

OutPaths == {join(out_dir, d) : d \in AllDests}

Paths ==
    SourceFiles \cup {MissingExe} \cup {out_dir} \cup OutPaths
    \cup ({parent(p) : p \in OutPaths} \ {NoParent})
    \cup UNION {Range(ProbeTable[n]) : n \in AllDests}

KeyTable == [p \in Paths |-> FsKey(p)]

\* The file a path of the model names.
Key(p) == KeyTable[p]

\* What the sysroot may hold under the name foo: any of the six files the
\* resolver probes for it.
SysrootChoices == SUBSET {KeyTable[ProbeTable["foo"][k]] : k \in 1..6}

---------------------------------------------------------------------------
(* State                                                                   *)

VARIABLES
    files,                      \* Packager.files: the staging list
    resolve_unknown_libraries,  \* Packager.resolve_unknown_libraries
    upx,                        \* Packager.upx
    disk,                       \* the files of the file system, by key
    dirs,                       \* the directories of the file system
    imports,                    \* the import table of each PE file, by content
    pc,                         \* where package() is
    idx,                        \* the index of the loop package() is in
    known_libraries,            \* package()'s local set
    unknown_libraries,          \* package()'s local set
    files_to_copy_offset,       \* package()'s scan cursor
    has_unknown,                \* package()'s local flag
    result,                     \* what package() returned
    runs,                       \* how many times package() was called
    registered,                 \* how many entries add_file registered
    prior,                      \* what the call of package() before this one returned
    before,                     \* disk and staging list when this run began
    created,                    \* the keys this run copied a file to
    compressed,                 \* the keys this run ran the compressor on
    pass,                       \* the closure's loop state when this pass began
    prev_pass,                  \* and when the pass before it began
    reads,                      \* how often this run read the imports of each entry
    target,                     \* the target triple the command line gave
    environment                 \* the MSYS2 environment chosen for the triple

vars == <<files, resolve_unknown_libraries, upx, disk, dirs, imports, pc, idx,
          known_libraries, unknown_libraries, files_to_copy_offset, has_unknown,
          result, runs, registered, prior, before, created, compressed, pass,
          prev_pass, reads, target, environment>>

config  == <<files, resolve_unknown_libraries, upx>>
fsys    == <<disk, dirs>>
locals  == <<known_libraries, unknown_libraries, files_to_copy_offset, has_unknown>>
history == <<prior, before, created, compressed>>
passes  == <<pass, prev_pass, reads>>
cli     == <<target, environment>>

\* What package() returned: nothing yet, Ok(()), or an error: its kind, its
\* message, the path it names and the phase of package() that raised it.
NoResult == [kind |-> "none", what |-> "", path |-> "", phase |-> ""]

Ok == [kind |-> "ok", what |-> "", path |-> "", phase |-> ""]

NoPass == [known |-> {}, scanned |-> <<>>, at |-> 0]

\* The state after Packager::new, in a world whose import tables are drawn
\* from tables and whose output directory holds one of the sets olds.
InitPackager(tables, olds) ==
    /\ files = <<>>
    /\ resolve_unknown_libraries = TRUE
    /\ upx = FALSE
    /\ imports \in [SourceFiles -> UNION {tables[f] : f \in SourceFiles}]
    /\ \A f \in SourceFiles : imports[f] \in tables[f]
    /\ \E old \in olds :
          /\ disk = [k \in {FsKey(f) : f \in SourceFiles} \cup old |->
                        IF k \in old THEN OldFile
                        ELSE [data |-> CHOOSE f \in SourceFiles : FsKey(f) = k,
                              packed |-> FALSE]]
          /\ dirs = UNION {Ancestors(k) : k \in {FsKey(f) : f \in SourceFiles} \cup old}
    /\ idx = 0
    /\ known_libraries = {}
    /\ unknown_libraries = {}
    /\ files_to_copy_offset = 0
    /\ has_unknown = FALSE
    /\ result = NoResult
    /\ runs = 0
    /\ registered = 0
    /\ prior = NoResult
    /\ before = [disk |-> disk, files |-> files]
    /\ created = {}
    /\ compressed = {}
    /\ pass = NoPass
    /\ prev_pass = NoPass
    /\ reads = <<>>

\* The state after the command line chose the environment of its target and
\* called Packager::new.
InitWorld(tables, olds) ==
    /\ target = msys2_target
    /\ environment = msys2_environment
    /\ pc = "config"
    /\ InitPackager(tables, olds)

Init == InitWorld([f \in SourceFiles |-> ImportTables(f)], OldOutputs)

\* The state when the command line has been read: any target, no
\* environment yet.
InitTriple ==
    /\ target \in Triples
    /\ environment = NotChosen
    /\ pc = "cli"
    /\ InitPackager([f \in SourceFiles |-> { {} }], EmptyOutput)

InitClosure == InitWorld([f \in SourceFiles |-> ClosureTables(f)], EmptyOutput)

InitRerun == InitWorld([f \in SourceFiles |-> RerunTables(f)], OldOutputs)

InitEntries == InitWorld([f \in SourceFiles |-> EntryTables(f)], EmptyOutput)

InitUpx == InitWorld([f \in SourceFiles |-> EntryTables(f)], OldOutputs)

InitSwitch == InitWorld([f \in SourceFiles |-> SwitchTables(f)], EmptyOutput)

InitApiSet == InitWorld([f \in SourceFiles |-> ApiSetTables(f)], EmptyOutput)

InitCase == InitWorld([f \in SourceFiles |-> CaseTables(f)], EmptyOutput)

InitResolver == InitWorld([f \in SourceFiles |-> ResolverTables(f)], SysrootChoices)

---------------------------------------------------------------------------
(* File-system and external operations                                     *)

\* Path::exists / Path::try_exists: a file or a directory is there.
exists(p) == Key(p) \in DOMAIN disk \/ Key(p) \in dirs

\* std::fs::create_dir_all: fails when a file is in the way.
create_dir_all(p) ==
    LET wanted == {Key(p)} \cup Ancestors(Key(p))
    IN  [ok |-> wanted \cap DOMAIN disk = {}, dirs |-> dirs \cup wanted]

\* std::fs::copy can read src and write dest.
CanCopy(src, dest) == Key(src) \in DOMAIN disk /\ Key(dest) \notin dirs

\* The disk after std::fs::copy(src, dest).
CopyFile(src, dest) ==
    LET key == Key(dest)
    IN  [k \in DOMAIN disk \cup {key} |-> IF k = key THEN disk[Key(src)] ELSE disk[k]]

\* The disk after the compressor rewrote the file in place.
Compress(d, dest) == [d EXCEPT ![Key(dest)].packed = TRUE]

\* util::get_dll_imports: the names of the import directory, or the error.
get_dll_imports(path) ==
    LET key == Key(path)
    IN  IF key \notin DOMAIN disk
        THEN [err |-> "failed to read file", names |-> {}]
        ELSE IF disk[key].data \notin DOMAIN imports
             THEN [err |-> "failed to parse pe file", names |-> {}]
             ELSE [err |-> "", names |-> imports[disk[key].data]]

---------------------------------------------------------------------------
(* Packager                                                                *)

File(src, dest, flags) == [src |-> src, dest |-> dest, flags |-> flags]

NotFound == "<not found>"

\* A resolver that returns the first path it builds, without probing it.
lookup_unprobed(name) == ProbeTable[name][1]

\* Packager::lookup_msys2_file: the first probe that exists.
lookup_msys2_file(name) ==
    LET probes == ProbeTable[name]
        hits   == {k \in 1..Len(probes) : exists(probes[k])}
    IN  IF hits = {} THEN NotFound
        ELSE probes[CHOOSE k \in hits : \A h \in hits : k <= h]

Error(kind, what, path) == [kind |-> kind, what |-> what, path |-> path, phase |-> ""]

IsBinary(file) == "LIB" \in file.flags \/ "EXE" \in file.flags

\* One iteration of the scan loop of the closure: st is the pair of sets and
\* the error the loop stopped with, if any.
ScanFile(st, file) ==
    IF st.err # NoResult THEN st
    ELSE IF file.src = None
    THEN [st EXCEPT !.err = Error("panic", "should be resolved, but it is not", file.dest)]
    ELSE IF file_name(file.src).kind = "None"
    THEN [st EXCEPT !.err = Error("IoFailed", "missing file name", file.src)]
    ELSE LET name   == file_name(file.src).name
             known  == st.known \cup {name}
             unkn   == st.unknown \ {name}
             read   == get_dll_imports(file.src)
             fresh  == {n \in read.names : ~is_system_dll(n) /\ n \notin known}
         IN  IF read.err # ""
             THEN [known |-> known, unknown |-> unkn,
                   err |-> Error(IF read.err = "failed to read file"
                                 THEN "IoFailed" ELSE "ParseFailed", read.err, file.src)]
             ELSE [known   |-> known \cup {n \in fresh : is_api_set_dll(n)},
                   unknown |-> unkn \cup {n \in fresh : ~is_api_set_dll(n)},
                   err     |-> NoResult]

RECURSIVE ScanFrom(_, _)
\* The scan loop over the entries q, in order; entries that are neither LIB
\* nor EXE are filtered out.
ScanFrom(st, q) ==
    IF q = <<>> THEN st
    ELSE ScanFrom(IF IsBinary(Head(q)) THEN ScanFile(st, Head(q)) ELSE st, Tail(q))

\* A cursor that stays at the start of the list.
cursor_at_start(a, b) == 0

\* usize::saturating_sub
saturating_sub(a, b) == IF a >= b THEN a - b ELSE 0

\* The closure's loop state at the start of a pass.
PassState(known, list, offset) ==
    [known |-> known, scanned |-> SubSeq(list, offset + 1, Len(list)), at |-> offset]

\* An add_file that puts the entry in front of the staging list.
AddFileInFront(src, dest, flags) ==
    /\ pc = "config"
    /\ Len(files) < MaxRegistered
    /\ files' = <<File(src, dest, flags)>> \o files
    /\ registered' = registered + 1
    /\ UNCHANGED <<resolve_unknown_libraries, upx, fsys, imports, pc, idx, locals,
                   result, runs, history, passes>>
    /\ UNCHANGED cli

\* Packager::add_file, called by the user of the Packager.
AddFile(src, dest, flags) ==
    /\ pc = "config"
    /\ Len(files) < MaxRegistered
    /\ files' = Append(files, File(src, dest, flags))
    /\ registered' = registered + 1
    /\ UNCHANGED <<resolve_unknown_libraries, upx, fsys, imports, pc, idx, locals,
                   result, runs, history, passes>>
    /\ UNCHANGED cli

\* Packager::resolve_unknown_libraries. The setters and add_file commute, so
\* the model calls the setters first.
SetResolveUnknownLibraries(b) ==
    /\ pc = "config" /\ files = <<>>
    /\ resolve_unknown_libraries # b
    /\ resolve_unknown_libraries' = b
    /\ UNCHANGED <<files, upx, fsys, imports, pc, idx, locals, result, runs,
                   registered, history, passes>>
    /\ UNCHANGED cli

\* Packager::upx
SetUpx(b) ==
    /\ pc = "config" /\ files = <<>>
    /\ upx # b
    /\ upx' = b
    /\ UNCHANGED <<files, resolve_unknown_libraries, fsys, imports, pc, idx, locals,
                   result, runs, registered, history, passes>>
    /\ UNCHANGED cli

\* package() returns the error e.
Fail(e) == pc' = "err" /\ result' = [e EXCEPT !.phase = pc]

\* main: the environment of the target triple is chosen, or the command
\* fails.
SelectEnvironment ==
    /\ pc = "cli"
    /\ environment' = target_triple_to_msys2_environment(target)
    /\ IF target_triple_to_msys2_environment(target) = Unsupported
       THEN Fail(Error("TripleUnsupported", "failed to translate into a MSYS2 environment",
                       target))
       ELSE pc' = "config" /\ result' = result
    /\ UNCHANGED <<config, fsys, imports, idx, locals, runs, registered, history,
                   passes, target>>

\* package(), phase 1: the call, and the creation of the output directory.
Call ==
    /\ runs' = runs + 1
    /\ prior' = result
    /\ before' = [disk |-> disk, files |-> files]
    /\ created' = {}
    /\ compressed' = {}
    /\ known_libraries' = {}
    /\ unknown_libraries' = {}
    /\ files_to_copy_offset' = 0
    /\ has_unknown' = FALSE
    /\ pass' = NoPass
    /\ prev_pass' = NoPass
    /\ reads' = <<>>
    /\ idx' = 1
    /\ IF create_dir_all(out_dir).ok
       THEN /\ dirs' = create_dir_all(out_dir).dirs
            /\ pc' = "lookup"
            /\ result' = NoResult
       ELSE /\ dirs' = dirs
            /\ Fail(Error("IoFailed", "failed to create out dir", out_dir))
    /\ UNCHANGED <<config, disk, imports, registered>>
    /\ UNCHANGED cli

\* The first call of package().
PackageBegin == pc = "config" /\ Call

\* A later call of package() on the same Packager, after it returned.
PackageAgain == pc \in {"ok", "err"} /\ runs < MaxRuns /\ Call

\* A check of dest that only counts its components.
LookupNameOfAnyKind(dest) ==
    LET cs == components(dest)
    IN  IF cs = <<>> THEN [err |-> "has no components", name |-> ""]
        ELSE IF Len(cs) > 1 THEN [err |-> "is longer than 1 component", name |-> ""]
        ELSE [err |-> "", name |-> IF cs[1].kind = "ParentDir" THEN ".." ELSE cs[1].name]

\* package(), phase 2: the name an entry without a src is looked up by, which
\* is the only component of its dest, or the error.
LookupName(dest) ==
    LET cs == components(dest)
    IN  IF cs = <<>> THEN [err |-> "has no components", name |-> ""]
        ELSE IF Len(cs) > 1 THEN [err |-> "is longer than 1 component", name |-> ""]
        ELSE IF cs[1].kind # "Normal" THEN [err |-> "is not a valid dll name", name |-> ""]
        ELSE [err |-> "", name |-> cs[1].name]

\* A loop of phase 2 that goes past every entry and resolves none.
LookupNothing ==
    /\ pc = "lookup"
    /\ idx <= Len(files)
    /\ idx' = idx + 1
    /\ UNCHANGED <<config, fsys, imports, pc, locals, result, runs, registered, history,
                   passes>>
    /\ UNCHANGED cli

\* package(), phase 2: one iteration of the loop that looks up the entries
\* without a src.
LookupMissing ==
    /\ pc = "lookup"
    /\ idx <= Len(files)
    /\ \E file \in {files[idx]}, by \in {LookupName(files[idx].dest)} :
           IF file.src # None
           THEN /\ idx' = idx + 1
                /\ UNCHANGED <<files, pc, result>>
           ELSE IF by.err # ""
           THEN /\ Fail(Error("InvalidRegistration", by.err, file.dest))
                /\ UNCHANGED <<files, idx>>
           ELSE IF lookup_msys2_file(by.name) = NotFound
           THEN /\ Fail(Error("LookupFailed", "missing", by.name))
                /\ UNCHANGED <<files, idx>>
           ELSE /\ files' = [files EXCEPT ![idx].src = lookup_msys2_file(by.name)]
                /\ idx' = idx + 1
                /\ UNCHANGED <<pc, result>>
    /\ UNCHANGED <<resolve_unknown_libraries, upx, fsys, imports, locals, runs,
                   registered, history, passes>>
    /\ UNCHANGED cli

\* A package() that starts the closure whatever the switch says.
LookupDoneAlwaysScans ==
    /\ pc = "lookup"
    /\ idx > Len(files)
    /\ idx' = 1
    /\ pc' = "scan"
    /\ pass' = PassState({}, files, 0)
    /\ UNCHANGED <<config, fsys, imports, locals, result, runs, registered, history,
                   prev_pass, reads>>
    /\ UNCHANGED cli

\* package(): phase 2 is over; the closure starts when it is switched on.
LookupDone ==
    /\ pc = "lookup"
    /\ idx > Len(files)
    /\ idx' = 1
    /\ IF resolve_unknown_libraries
       THEN /\ pc' = "scan"
            /\ pass' = PassState({}, files, 0)
       ELSE /\ pc' = "copy"
            /\ pass' = pass
    /\ UNCHANGED <<config, fsys, imports, locals, result, runs, registered, history,
                   prev_pass, reads>>
    /\ UNCHANGED cli

\* The two sets of the closure before a pass.
ClosureSets == [known |-> known_libraries, unknown |-> unknown_libraries, err |-> NoResult]

\* How often this run called get_dll_imports on the entry at index i.
ReadCount(i) == IF i \in DOMAIN reads THEN reads[i] ELSE 0

\* Whether the pass over list[offset..] that starts with the sets st calls
\* get_dll_imports on the entry at index i: the entry is LIB or EXE, the
\* loop got to it without an error, and it has a src with a file name.
ReadBy(st, list, offset, i) ==
    /\ i > offset /\ i <= Len(list)
    /\ IsBinary(list[i])
    /\ ScanFrom(st, SubSeq(list, offset + 1, i - 1)).err = NoResult
    /\ list[i].src # None
    /\ file_name(list[i].src).kind # "None"

\* package(), phase 3: one pass of the scan loop over files[offset..], then
\* the cursor and has_unknown are set.
Scan ==
    /\ pc = "scan"
    /\ \E st \in {ScanFrom(ClosureSets,
                            SubSeq(files, files_to_copy_offset + 1, Len(files)))} :
           /\ known_libraries' = st.known
           /\ unknown_libraries' = st.unknown
           /\ IF st.err # NoResult
              THEN /\ Fail(st.err)
                   /\ UNCHANGED <<files_to_copy_offset, has_unknown>>
              ELSE /\ files_to_copy_offset' = saturating_sub(Len(files), 1)
                   /\ has_unknown' = (st.unknown # {})
                   /\ pc' = "drain"
                   /\ result' = result
    /\ reads' = [i \in 1..Len(files) |->
                    ReadCount(i) + IF ReadBy(ClosureSets, files, files_to_copy_offset, i)
                                   THEN 1 ELSE 0]
    /\ UNCHANGED <<config, fsys, imports, idx, runs, registered, history, pass, prev_pass>>
    /\ UNCHANGED cli

\* An entry for a library under the file name of the file found for it.
NewLibraryByFileName(src, library) ==
    File(src, file_name(src).name, {"UPX", "LIB", "ADD_DEPS"})

\* An entry for a library that leaves the file that was found out.
NewLibraryUnresolved(src, library) == File(None, library, {"UPX", "LIB", "ADD_DEPS"})

\* An entry for a library that is not scanned for its own imports.
NewLibraryWithoutDeps(src, library) == File(src, library, {"UPX", "LIB"})

\* package(), phase 3: the entry the drain loop adds for a library.
NewLibrary(src, library) == File(src, library, {"UPX", "LIB", "ADD_DEPS"})

\* package(), phase 3: one iteration of the drain loop. The set is drained in
\* the order the hash set yields, which is any order.
Drain ==
    /\ pc = "drain"
    /\ \E library \in unknown_libraries :
          IF lookup_msys2_file(library) = NotFound
          THEN /\ Fail(Error("LookupFailed", "missing", library))
               /\ UNCHANGED <<files, unknown_libraries>>
          ELSE /\ Len(files) < MaxStaged
               /\ files' = Append(files, NewLibrary(lookup_msys2_file(library), library))
               /\ unknown_libraries' = unknown_libraries \ {library}
               /\ UNCHANGED <<pc, result>>
    /\ UNCHANGED <<resolve_unknown_libraries, upx, fsys, imports, idx, known_libraries,
                   files_to_copy_offset, has_unknown, runs, registered, history, passes>>
    /\ UNCHANGED cli

\* package(), phase 3: the drain is over; the loop repeats when the scan had
\* left a name in unknown_libraries, else phase 4 starts.
DrainDone ==
    /\ pc = "drain"
    /\ unknown_libraries = {}
    /\ IF has_unknown
       THEN /\ pc' = "scan"
            /\ prev_pass' = pass
            /\ pass' = PassState(known_libraries, files, files_to_copy_offset)
            /\ reads' = reads
       ELSE /\ pc' = "copy"
            /\ UNCHANGED passes
    /\ idx' = 1
    /\ UNCHANGED <<config, fsys, imports, locals, result, runs, registered, history>>
    /\ UNCHANGED cli

\* A compressor that is run on every file with the flag UPX.
WantsUpxOfAnyType(file) == upx /\ "UPX" \in file.flags

\* Whether the compressor is run on the copy of a file.
WantsUpx(file) == upx /\ "UPX" \in file.flags /\ IsBinary(file)

\* A check of src that compares it as it is spelled.
InSystemDirectoryAsSpelled(src) == starts_with(src, "c:/windows")

\* A copy loop that writes every destination.
AlwaysCopy(dest) == TRUE

\* A check that only spares what was in the output directory before the run.
DestinationWasEmpty(dest) == Key(dest) \notin DOMAIN before.disk

\* A check that takes a file that is not compressed for no file.
DestinationIsUnpacked(dest) ==
    /\ Key(dest) \notin dirs
    /\ Key(dest) \in DOMAIN disk => ~disk[Key(dest)].packed

\* package(), phase 4: only attempt a copy if the destination is empty.
DestinationIsEmpty(dest) == ~exists(dest)

\* The check of phase 4 that src is not under the Windows directory.
InSystemDirectory(src) == starts_with(to_ascii_lowercase(src), "c:/windows")

\* package(), phase 4: one iteration of the loop that copies the entries.
\* upx_ok is whether the compressor, if it is run, succeeds.
Materialize(upx_ok) ==
    /\ pc = "copy"
    /\ idx <= Len(files)
    /\ \E file \in {files[idx]}, dest \in {join(out_dir, files[idx].dest)} :
       \E up \in {parent(dest)} :
       \E made \in {IF up = NoParent THEN [ok |-> TRUE, dirs |-> dirs] ELSE create_dir_all(up)} :
           IF ~is_relative(file.dest)
           THEN /\ Fail(Error("PolicyViolation", "is an absolute path", file.dest))
                /\ UNCHANGED <<fsys, idx, created, compressed>>
           ELSE IF file.src = None
           THEN /\ Fail(Error("panic", "should be resolved, but it is not", file.dest))
                /\ UNCHANGED <<fsys, idx, created, compressed>>
           ELSE IF InSystemDirectory(file.src)
           THEN /\ Fail(Error("PolicyViolation", "is being added from a system directory",
                              file.src))
                /\ UNCHANGED <<fsys, idx, created, compressed>>
           ELSE IF ~DestinationIsEmpty(dest)
           THEN /\ upx_ok
                /\ idx' = idx + 1
                /\ UNCHANGED <<fsys, pc, result, created, compressed>>
           ELSE IF ~made.ok
           THEN /\ upx_ok
                /\ Fail(Error("IoFailed", "failed to create parent dir", up))
                /\ UNCHANGED <<fsys, idx, created, compressed>>
           ELSE IF ~CanCopy(file.src, dest)
           THEN /\ upx_ok
                /\ dirs' = made.dirs
                /\ Fail(Error("IoFailed", "failed to copy", file.src))
                /\ UNCHANGED <<disk, idx, created, compressed>>
           ELSE IF ~WantsUpx(file)
           THEN /\ upx_ok
                /\ dirs' = made.dirs
                /\ disk' = CopyFile(file.src, dest)
                /\ created' = created \cup {Key(dest)}
                /\ idx' = idx + 1
                /\ UNCHANGED <<pc, result, compressed>>
           ELSE IF upx_ok
           THEN /\ dirs' = made.dirs
                /\ disk' = Compress(CopyFile(file.src, dest), dest)
                /\ created' = created \cup {Key(dest)}
                /\ compressed' = compressed \cup {Key(dest)}
                /\ idx' = idx + 1
                /\ UNCHANGED <<pc, result>>
           ELSE /\ dirs' = made.dirs
                /\ disk' = CopyFile(file.src, dest)
                /\ created' = created \cup {Key(dest)}
                /\ Fail(Error("ExternalToolFailed", "failed to upx", dest))
                /\ UNCHANGED <<idx, compressed>>
    /\ UNCHANGED <<config, imports, locals, runs, registered, prior, before, passes>>
    /\ UNCHANGED cli

\* A copy loop that stops before the last entry.
PackageOkBeforeLast ==
    /\ pc = "copy"
    /\ idx >= Len(files)
    /\ pc' = "ok"
    /\ result' = Ok
    /\ UNCHANGED <<config, fsys, imports, idx, locals, runs, registered, history, passes>>
    /\ UNCHANGED cli

\* package(): phase 4 is over, Ok(()) is returned.
PackageOk ==
    /\ pc = "copy"
    /\ idx > Len(files)
    /\ pc' = "ok"
    /\ result' = Ok
    /\ UNCHANGED <<config, fsys, imports, idx, locals, runs, registered, history, passes>>
    /\ UNCHANGED cli

\* The calls of add_file with arguments of the given sets.
Register(Srcs, Dests, Flags) ==
    \E src \in Srcs, dest \in Dests, flags \in Flags : AddFile(src, dest, flags)

\* The steps of one call of package().
Package ==
    \/ PackageBegin
    \/ LookupMissing
    \/ LookupDone
    \/ Scan
    \/ Drain
    \/ DrainDone
    \/ \E upx_ok \in BOOLEAN : Materialize(upx_ok)
    \/ PackageOk

Next ==
    \/ Register(SrcChoices, DestChoices, FlagChoices)
    \/ \E b \in BOOLEAN : SetUpx(b)
    \/ Package

Spec == Init /\ [][Next]_vars

\* The closure: many import graphs, few registrations, an empty output.
NextClosure ==
    \/ Register(ClosureSrcs, ClosureDests, ClosureFlags)
    \/ Package

SpecClosure == InitClosure /\ [][NextClosure]_vars

\* package() is called again on the Packager after it returned.
NextRerun ==
    \/ Register(RerunSrcs, RerunDests, FlagChoices)
    \/ \E b \in BOOLEAN : SetUpx(b)
    \/ Package
    \/ PackageAgain

SpecRerun == InitRerun /\ [][NextRerun]_vars

\* The checks of dest and src: one import graph, many registrations.
NextEntries ==
    \/ Register(EntrySrcs, EntryDests, ClosureFlags)
    \/ Package

SpecEntries == InitEntries /\ [][NextEntries]_vars

\* A run that fails in the copy loop, and the run after it.
NextRollback ==
    \/ Register(EntrySrcs, RollbackDests, RollbackFlags)
    \/ \E b \in BOOLEAN : SetUpx(b)
    \/ Package
    \/ PackageAgain

SpecRollback == InitEntries /\ [][NextRollback]_vars

\* The compressor: the switch, the flags, and an output directory that is
\* empty or not.
NextUpx ==
    \/ Register(ClosureSrcs, ClosureDests, UpxFlags)
    \/ \E b \in BOOLEAN : SetUpx(b)
    \/ Package

SpecUpx == InitUpx /\ [][NextUpx]_vars

\* The closure, switched on or off.
NextSwitch ==
    \/ Register(ClosureSrcs, ClosureDests, ClosureFlags)
    \/ \E b \in BOOLEAN : SetResolveUnknownLibraries(b)
    \/ Package

SpecSwitch == InitSwitch /\ [][NextSwitch]_vars

\* The classifier of API sets: the application imports one name.
NextApiSet ==
    \/ Register(ApiSetSrcs, ApiSetDests, FlagChoices)
    \/ Package

SpecApiSet == InitApiSet /\ [][NextApiSet]_vars

\* The classifiers and the spelling of a name.
NextCase ==
    \/ Register(ApiSetSrcs, ApiSetDests, FlagChoices)
    \/ Package

SpecCase == InitCase /\ [][NextCase]_vars

\* The command line: the target triple and its environment.
NextTriple == SelectEnvironment

SpecTriple == InitTriple /\ [][NextTriple]_vars

\* The resolver: every sysroot, few registrations.
NextResolver ==
    \/ Register(ClosureSrcs, ResolverDests, FlagChoices)
    \/ Package

SpecResolver == InitResolver /\ [][NextResolver]_vars

---------------------------------------------------------------------------
(* Claims                                                                  *)

\* The indices of the staging list.
Staged == 1..Len(files)

\* The import names the PE Import Reader reports for the src of an entry.
ImportsOf(file) == get_dll_imports(file.src).names

\* The file a staging entry is written to.
Target(file) == Key(join(out_dir, file.dest))

\* C1: after package() succeeded with resolve_unknown_libraries on, every
\* name imported by a staged LIB/EXE file is a system DLL, an API-set DLL, or
\* the file name of the src of a staging entry.
C1_ImportsAreStaged ==
    pc = "ok" /\ resolve_unknown_libraries =>
        \A i \in Staged : IsBinary(files[i]) =>
            \A n \in ImportsOf(files[i]) :
                \/ is_system_dll(n)
                \/ is_api_set_dll(n)
                \/ \E j \in Staged : file_name(files[j].src).name = n

\* C2: the closure loop terminates: a pass that does not exit changes the
\* loop state. The outcome of a pass is a function of the set of known names
\* and of the entries it scans (the set of unknown names is empty when a pass
\* starts), so a pass that starts with the known names and the entries of the
\* pass before it repeats that pass, and so does every pass after it.
C2_EveryPassMakesProgress ==
    pc = "scan" /\ prev_pass # NoPass =>
        ~(pass.known = prev_pass.known /\ pass.scanned = prev_pass.scanned)

\* The file a name of an import table denotes: the file of the sysroot the
\* resolver finds for it.
Denotes(n, path) ==
    lookup_msys2_file(n) # NotFound /\ Key(lookup_msys2_file(n)) = Key(path)

\* The staged file of entry i imports the staged file of entry j: by a name
\* that the resolver maps to it, or by its file name.
ImportsEntry(i, j) ==
    \E n \in ImportsOf(files[i]) :
        Denotes(n, files[j].src) \/ n = file_name(files[j].src).name

\* The entries whose src is the file of entry i.
EntriesOf(i) == {k \in Staged : Key(files[k].src) = Key(files[i].src)}

\* The caller registered no file twice.
RegisteredOnce ==
    \A i, j \in 1..registered : i # j => Key(files[i].src) # Key(files[j].src)

\* C3: when two staged files import each other, package() terminates and the
\* final staging list holds each of the two exactly once.
C3_CycleMembersOnce ==
    pc = "ok" /\ resolve_unknown_libraries /\ RegisteredOnce
        /\ (\A k \in 1..registered : IsBinary(files[k])) =>
        \A i, j \in Staged :
            /\ IsBinary(files[i]) /\ IsBinary(files[j])
            /\ Key(files[i].src) # Key(files[j].src)
            /\ ImportsEntry(i, j) /\ ImportsEntry(j, i)
            => Cardinality(EntriesOf(i)) = 1 /\ Cardinality(EntriesOf(j)) = 1

\* The names a file imports that are neither system nor API-set DLLs.
Wanted(path) ==
    {n \in get_dll_imports(path).names : ~is_system_dll(n) /\ ~is_api_set_dll(n)}

\* The names the files of the sysroot found for the names S import.
WantedBy(S) ==
    UNION {Wanted(lookup_msys2_file(n)) : n \in {m \in S : lookup_msys2_file(m) # NotFound}}

RECURSIVE Grow(_)
Grow(S) == IF WantedBy(S) \subseteq S THEN S ELSE Grow(S \cup WantedBy(S))

\* The least fixed point of the imports relation started from the LIB/EXE
\* entries that were registered.
Closure ==
    Grow(UNION {Wanted(files[i].src) : i \in {k \in 1..registered : IsBinary(files[k])}})

\* The files of the output tree.
OutputTree == {k \in DOMAIN disk : StartsWithStr(k, Key(out_dir) \o "/")}

\* The entries the closure appended.
Appended == (registered + 1)..Len(files)

\* C4 as stated: after package() succeeded into an empty output directory,
\* the files of the output tree are the dests of the registered entries and
\* the names of the closure, and nothing else.
C4_OutputIsRegisteredAndClosure ==
    pc = "ok" /\ resolve_unknown_libraries /\ runs = 1 =>
        OutputTree = {Target(files[i]) : i \in 1..registered}
                        \cup {Key(join(out_dir, n)) : n \in Closure}

\* C4, amended: after package() succeeded into an empty output directory,
\* the files of the output tree are the dests of the staging entries; the
\* dest of every appended entry is a name of the closure; and every name of
\* the closure is the dest of an appended entry or the file name of the src
\* of a staged LIB/EXE entry.
C4_OutputIsStaged ==
    pc = "ok" /\ resolve_unknown_libraries /\ runs = 1 =>
        /\ OutputTree = {Target(files[i]) : i \in Staged}
        /\ \A i \in Appended : files[i].dest \in Closure
        /\ \A n \in Closure :
              \/ \E i \in Appended : files[i].dest = n
              \/ \E i \in Staged : IsBinary(files[i]) /\ file_name(files[i].src).name = n

\* The closure found a library by a name that is not its file name, and a
\* library that imports a staged file by a name that is not its dest.
C4_Witness ==
    /\ pc = "ok" /\ resolve_unknown_libraries /\ runs = 1
    /\ \E i \in Appended : file_name(files[i].src).name # files[i].dest
    /\ \E n \in Closure : \A i \in Staged : files[i].dest # n

\* The first entry of the staging list that is written to the file t.
FirstFor(t) == files[CHOOSE i \in Staged : Target(files[i]) = t /\
                        \A j \in Staged : Target(files[j]) = t => i <= j]

\* C5 as stated: after package() returned ok, the dest of every staging entry
\* exists in the output directory and holds the content of the entry's src,
\* unless the compressor was applied to it.
C5_EveryEntryIsCopied ==
    pc = "ok" =>
        \A i \in Staged :
            /\ Target(files[i]) \in DOMAIN disk
            /\ Target(files[i]) \notin compressed =>
                  disk[Target(files[i])] = disk[Key(files[i].src)]

\* C5, amended: after package() returned ok, the dest of every staging entry
\* exists in the output directory; what was there before the call is as it
\* was; a file that was not there holds the content of the src of the first
\* entry with that dest, compressed if and only if the compressor was applied
\* to it.
C5_FirstEntryIsCopied ==
    pc = "ok" =>
        \A i \in Staged :
            LET t == Target(files[i])
            IN  /\ t \in DOMAIN disk \/ t \in dirs
                /\ t \in DOMAIN before.disk => disk[t] = before.disk[t]
                /\ t \in DOMAIN disk \ DOMAIN before.disk =>
                      /\ disk[t].data = disk[Key(FirstFor(t).src)].data
                      /\ disk[t].packed = (t \in compressed)
                      /\ t \in created

\* package() returned ok with two entries of one dest and different srcs.
C5_Witness ==
    /\ pc = "ok"
    /\ \E i, j \in Staged :
          /\ i < j /\ Target(files[i]) = Target(files[j])
          /\ Key(files[i].src) # Key(files[j].src)
          /\ Target(files[i]) \in created

\* The files the copy loop wrote for the entries before entry n.
CopiedBefore(n) == {Target(files[i]) : i \in 1..(n - 1)} \ (DOMAIN before.disk \cup dirs)

\* The disk is the disk of the start of the run and the files of S.
OnlyWrote(S) ==
    /\ DOMAIN disk = DOMAIN before.disk \cup S
    /\ \A k \in DOMAIN before.disk : disk[k] = before.disk[k]
    /\ S \cap DOMAIN before.disk = {}

\* C6 as stated: package() is atomic: after an error the output tree holds
\* none of the files of the run, after ok it holds all of them.
C6_Atomic ==
    /\ pc = "err" => created = {} /\ disk = before.disk
    /\ pc = "ok" => \A i \in Staged : exists(join(out_dir, files[i].dest))

\* C6, amended: after ok the output tree holds the dest of every entry. An
\* error of phases 1 to 3 leaves the disk as it was. An error of phase 4 at
\* entry k leaves the files copied for the entries before k and, when it is
\* the compressor that failed, the uncompressed copy of entry k.
C6_CopiesUpToTheError ==
    /\ pc = "ok" =>
          /\ \A i \in Staged : exists(join(out_dir, files[i].dest))
          /\ created = CopiedBefore(Len(files) + 1)
          /\ OnlyWrote(created)
    /\ pc = "err" /\ result.phase # "copy" => created = {} /\ disk = before.disk
    /\ pc = "err" /\ result.phase = "copy" =>
          /\ OnlyWrote(created)
          /\ IF result.kind = "ExternalToolFailed"
             THEN /\ created = CopiedBefore(idx) \cup {Target(files[idx])}
                  /\ ~disk[Target(files[idx])].packed
             ELSE created = CopiedBefore(idx)

\* package() failed in phase 4 after it had copied a file.
C6_Witness == pc = "err" /\ result.phase = "copy" /\ created # {}

\* C7: a second call of package(), after a first one that returned ok, with
\* the same configuration, sysroot and output tree, is a no-op: it creates,
\* overwrites and compresses no file, appends no staging entry, and returns
\* ok.
C7_SecondRunIsNoOp ==
    runs = 2 /\ prior = Ok =>
        /\ files = before.files
        /\ disk = before.disk
        /\ created = {} /\ compressed = {}
        /\ pc # "err"

\* The path, lower-cased, is under c:/windows.
UnderWindows(src) ==
    LET cs == components(to_ascii_lowercase(src))
    IN  /\ Len(cs) >= 3
        /\ cs[1] = [kind |-> "Prefix", name |-> "c:"]
        /\ cs[2].kind = "RootDir"
        /\ cs[3] = [kind |-> "Normal", name |-> "windows"]

\* The entries whose src is under the Windows directory.
SystemEntries == {i \in Staged : files[i].src # None /\ UnderWindows(files[i].src)}

\* C8 as stated: when the src of a staging entry is under c:/windows and
\* the run gets to phase 4, package() fails with the system-directory
\* PolicyViolation, and no file of any entry has been copied.
C8_NoCopyBeforePolicyViolation ==
    (pc = "ok" \/ (pc = "err" /\ result.phase = "copy")) /\ SystemEntries # {} =>
        /\ result.kind = "PolicyViolation"
        /\ result.what = "is being added from a system directory"
        /\ created = {}

\* C8, amended: an entry whose src is under c:/windows is never copied and
\* package() never returns ok with one: the copy loop stops at the first
\* entry it reaches that has one, with the system-directory PolicyViolation
\* that names its src, unless the dest of that entry is an absolute path. The
\* files of the entries before it have been copied.
C8_PolicyViolationAtTheEntry ==
    /\ pc = "ok" => SystemEntries = {}
    /\ pc = "copy" => \A i \in SystemEntries : idx <= i
    /\ pc = "err" /\ result.phase = "copy" =>
          /\ \A i \in SystemEntries : idx <= i
          /\ idx \in SystemEntries /\ is_relative(files[idx].dest) =>
                /\ result.kind = "PolicyViolation"
                /\ result.what = "is being added from a system directory"
                /\ result.path = files[idx].src
                /\ created = CopiedBefore(idx)
    /\ \A i \in SystemEntries : Target(files[i]) \in created =>
          \E j \in 1..(i - 1) : Target(files[j]) = Target(files[i])

\* package() failed at an entry from the Windows directory after it had
\* copied an entry before it.
C8_Witness ==
    /\ pc = "err"
    /\ result.what = "is being added from a system directory"
    /\ idx \in SystemEntries
    /\ created # {}

\* No path the resolver probes for the name exists.
NoProbeExists(n) == \A k \in 1..Len(Probes(n)) : ~exists(Probes(n)[k])

\* The names phase 2 looks up: the dest of an entry without a src.
IsLookupName(dest) ==
    /\ Len(components(dest)) = 1
    /\ components(dest)[1].kind = "Normal"

\* A step of package(): the lookup of phase 2 or of the drain of phase 3
\* fails if and only if no probe of the name exists, and phases 2 and 3 leave
\* the disk as it was.
C9_LookupFailedStep ==
    /\ pc = "lookup" /\ idx <= Len(files) /\ files[idx].src = None
          /\ IsLookupName(files[idx].dest) =>
          IF NoProbeExists(files[idx].dest)
          THEN /\ pc' = "err"
               /\ result' = [kind |-> "LookupFailed", what |-> "missing",
                             path |-> files[idx].dest, phase |-> "lookup"]
          ELSE pc' = "lookup" /\ files'[idx].src \in Range(Probes(files[idx].dest))
                              /\ exists(files'[idx].src)
    /\ pc = "drain" /\ unknown_libraries # {} =>
          \/ /\ pc' = "err"
             /\ result'.kind = "LookupFailed"
             /\ result'.phase = "drain"
             /\ result'.path \in unknown_libraries
             /\ NoProbeExists(result'.path)
          \/ /\ pc' = "drain"
             /\ Len(files') = Len(files) + 1
             /\ files'[Len(files')].dest \in unknown_libraries
             /\ ~NoProbeExists(files'[Len(files')].dest)
    /\ pc' = "err" /\ result'.kind = "LookupFailed" => created' = {} /\ disk' = before'.disk
    /\ pc' \in {"lookup", "scan", "drain"} => created' = {} /\ disk' = before'.disk

\* C9: a name that is not found in the sysroot, in phase 2 or in the drain
\* of phase 3, makes package() return a LookupFailed error that names it; no
\* file has been copied then, because every lookup and every import read of
\* a run is done in phases 2 and 3, which copy nothing.
C9_LookupFailedBeforeAnyCopy == [][C9_LookupFailedStep]_vars

\* package() failed in the drain of phase 3 on a name that is not found.
C9_Witness ==
    /\ pc = "err" /\ result.kind = "LookupFailed" /\ result.phase = "drain"
    /\ NoProbeExists(result.path)

\* A step of phase 2 at an entry without a src: the entry is looked up by
\* its dest when that is one component of normal kind, and refused if not.
C10_UnresolvedDestStep ==
    pc = "lookup" /\ idx <= Len(files) /\ files[idx].src = None =>
        LET dest == files[idx].dest
        IN  IF IsLookupName(dest)
            THEN \/ pc' = "err" /\ result'.kind = "LookupFailed"
                                /\ result'.path = components(dest)[1].name
                 \/ pc' = "lookup" /\ files'[idx].src = lookup_msys2_file(components(dest)[1].name)
            ELSE /\ pc' = "err"
                 /\ result'.kind = "InvalidRegistration"
                 /\ result'.path = dest
                 /\ Len(components(dest)) = 2 => result'.what = "is longer than 1 component"
                 /\ files' = files

UnresolvedOthers ==
    {i \in 1..Len(before.files) : before.files[i].src = None /\ ~IsBinary(before.files[i])}

\* C11: an entry registered without a src whose flags hold neither LIB nor
\* EXE is never given a src by the resolver and never copied, package() does
\* not return ok while it is staged, and the error it gets is
\* InvalidRegistration.
C11_UnresolvedNeedsLibOrExe ==
    pc # "config" =>
        /\ \A i \in UnresolvedOthers :
              /\ files[i].src = None
              /\ Target(files[i]) \notin created
        /\ UnresolvedOthers # {} => pc # "ok"
        /\ pc = "err" /\ idx \in UnresolvedOthers /\ result.phase = "lookup" =>
              result.kind = "InvalidRegistration"

\* The entries whose dest is an absolute path.
AbsoluteEntries == {i \in Staged : is_absolute(files[i].dest)}

\* The entries the copy loop of this run has gone past.
Copied == IF pc = "ok" THEN Staged
          ELSE IF pc = "copy" \/ (pc = "err" /\ result.phase = "copy") THEN 1..(idx - 1)
          ELSE {}

AfterLookup ==
    \/ pc \in {"scan", "drain", "copy", "ok"}
    \/ pc = "err" /\ result.phase \in {"scan", "drain", "copy"}

\* The entries that were registered with a src.
RegisteredWithSrc == {i \in 1..Len(before.files) : before.files[i].src # None}

\* C13 as stated: once phase 2 has completed without error, the src of
\* every staging entry is set and is a file on disk.
C13_EverySrcExists ==
    AfterLookup =>
        \A i \in Staged : files[i].src # None /\ Key(files[i].src) \in DOMAIN disk

\* C13, amended: once phase 2 has completed without error, the src of every
\* staging entry is set. The src of an entry that was registered without one,
\* or that the closure appended, is the path the resolver returned for its
\* dest, which exists. The src of an entry that was registered with one is
\* the path it was registered with, whether that exists or not.
C13_ResolvedSrcExists ==
    AfterLookup =>
        \A i \in Staged :
            /\ files[i].src # None
            /\ IF i \in RegisteredWithSrc
               THEN files[i].src = before.files[i].src
               ELSE /\ IsLookupName(files[i].dest)
                    /\ files[i].src = lookup_msys2_file(files[i].dest)
                    /\ Key(files[i].src) \in DOMAIN disk \cup dirs

\* Phase 2 completed with an entry whose src is not on disk and an entry it
\* resolved.
C13_Witness ==
    /\ AfterLookup
    /\ \E i \in RegisteredWithSrc : Key(files[i].src) \notin DOMAIN disk
    /\ \E i \in Staged \ RegisteredWithSrc : i <= registered

\* The six paths of the sysroot C:/msys64/ucrt64 for the name n, in the
\* order lib before bin and, in each, n, n.dll, n.exe.
SixProbes(n) ==
    << "C:/msys64/ucrt64/lib/" \o n, "C:/msys64/ucrt64/lib/" \o n \o ".dll",
       "C:/msys64/ucrt64/lib/" \o n \o ".exe",
       "C:/msys64/ucrt64/bin/" \o n, "C:/msys64/ucrt64/bin/" \o n \o ".dll",
       "C:/msys64/ucrt64/bin/" \o n \o ".exe" >>

\* The first of the six paths that exists, or NotFound when none does.
FirstExisting(n) ==
    LET hits == {k \in 1..6 : exists(SixProbes(n)[k])}
    IN  IF hits = {} THEN NotFound
        ELSE SixProbes(n)[CHOOSE k \in hits : \A h \in hits : k <= h]

\* A step of package() that calls the resolver, in phase 2 or in the drain:
\* it stores the first of the six paths that exists, and fails with
\* LookupFailed when none does.
C14_ResolverStep ==
    /\ pc = "lookup" /\ idx <= Len(files) /\ files[idx].src = None
       /\ IsLookupName(files[idx].dest) =>
          IF FirstExisting(files[idx].dest) = NotFound
          THEN pc' = "err" /\ result'.kind = "LookupFailed" /\ files' = files
          ELSE pc' = "lookup" /\ files'[idx].src = FirstExisting(files[idx].dest)
    /\ pc = "drain" /\ unknown_libraries # {} =>
          \/ /\ pc' = "err" /\ result'.kind = "LookupFailed"
             /\ result'.path \in unknown_libraries
             /\ FirstExisting(result'.path) = NotFound
          \/ /\ Len(files') = Len(files) + 1
             /\ files'[Len(files')].dest \in unknown_libraries
             /\ files'[Len(files')].src = FirstExisting(files'[Len(files')].dest)
    /\ exists("C:/msys64/ucrt64/lib/foo.dll") /\ exists("C:/msys64/ucrt64/bin/foo.dll") =>
          lookup_msys2_file("foo.dll") = "C:/msys64/ucrt64/lib/foo.dll"
    /\ (\A k \in 1..5 : ~exists(SixProbes("foo")[k])) /\ exists(SixProbes("foo")[6]) =>
          lookup_msys2_file("foo") = "C:/msys64/ucrt64/bin/foo.exe"
    /\ lookup_msys2_file("foo.dll") \notin {SixProbes("foo")[3], SixProbes("foo")[6]}

\* C14: the resolver probes lib/n, lib/n.dll, lib/n.exe, bin/n, bin/n.dll,
\* bin/n.exe of the sysroot in this order and returns the first that exists,
\* the extension being appended to n; it finds nothing iff none of the six
\* exists. foo.dll with lib/foo.dll and bin/foo.dll present is the one of
\* lib; a name with only bin/<name>.exe present is that file.
C14_FirstOfSixProbes == [][C14_ResolverStep]_vars

\* With lib/foo.dll and bin/foo.dll in the sysroot and no lib/foo, the
\* entries registered without a src as foo.dll and as foo were both resolved
\* to lib/foo.dll.
C14_Witness ==
    /\ exists("C:/msys64/ucrt64/bin/foo.dll")
    /\ ~exists("C:/msys64/ucrt64/lib/foo")
    /\ \E i, j \in 1..Len(before.files) :
          /\ before.files[i].src = None /\ before.files[j].src = None
          /\ files[i].dest = "foo.dll" /\ files[j].dest = "foo"
          /\ files[i].src = "C:/msys64/ucrt64/lib/foo.dll"
          /\ files[j].src = "C:/msys64/ucrt64/lib/foo.dll"

\* The staged files whose imports ADD_DEPS lets the closure read.
WithAddDeps ==
    {i \in Staged : "ADD_DEPS" \in files[i].flags /\ IsBinary(files[i]) /\ files[i].src # None}

\* C15: the closure reads the imports of a staged file, and adds its
\* dependencies, only if the flags of the entry include ADD_DEPS: every
\* entry the closure appended is imported by an entry with ADD_DEPS, and when
\* no registered entry has ADD_DEPS the closure appends nothing.
C15_AddDepsGatesScanning ==
    /\ \A j \in Appended : \E i \in WithAddDeps : files[j].dest \in ImportsOf(files[i])
    /\ (\A i \in 1..registered : "ADD_DEPS" \notin files[i].flags) => Appended = {}

\* The switch and the flags of an entry ask for the compressor.
UpxAsked(i) ==
    /\ upx
    /\ "UPX" \in files[i].flags
    /\ "LIB" \in files[i].flags \/ "EXE" \in files[i].flags

\* No two staging entries are written to the same file.
DistinctTargets ==
    \A i, j \in Staged : i # j => Target(files[i]) # Target(files[j])

\* C16 as stated: after package() returned ok, the compressor has been run
\* on output_root/dest of an entry if and only if the upx switch is true and
\* the flags of the entry include UPX and LIB or EXE.
C16_CompressedIffAsked ==
    pc = "ok" /\ DistinctTargets =>
        \A i \in Staged : Target(files[i]) \in compressed <=> UpxAsked(i)

\* A step of package(): the compressor is run at the step of the copy loop
\* for an entry, on output_root/dest, when the switch and the flags ask for it
\* and the step copied the file; no other step runs it.
C16_CompressorStep ==
    LET ran == compressed' # compressed \/ (pc' = "err" /\ result'.kind = "ExternalToolFailed")
    IN  IF pc = "copy" /\ idx <= Len(files)
        THEN /\ ran <=> /\ UpxAsked(idx)
                        /\ Target(files[idx]) \notin DOMAIN disk \cup dirs
                        /\ Target(files[idx]) \in created'
             /\ compressed' \subseteq compressed \cup {Target(files[idx])}
             /\ compressed' \subseteq created'
             /\ \A k \in compressed' : disk'[k].packed
             /\ \A f \in SourceFiles : disk'[Key(f)] = disk[Key(f)] /\ ~disk[Key(f)].packed
             /\ \/ idx' = idx + 1 /\ pc' = "copy"
                \/ idx' = idx /\ pc' = "err"
        ELSE ~ran

\* C16, amended: the compressor is run on output_root/dest of an entry if
\* and only if the upx switch is true, the flags of the entry include UPX and
\* LIB or EXE, and the copy loop copied the file of that entry in this run,
\* which it does only when output_root/dest did not exist; it is run right
\* after that copy, once, on the copy and never on a src, and never when the
\* switch is false.
C16_CompressedIffAskedAndCopied == [][C16_CompressorStep]_vars

\* package() returned ok with the switch on: the compressor was run on an
\* entry it copied, and not on an entry with UPX and EXE whose
\* output_root/dest existed before.
C16_Witness ==
    /\ pc = "ok" /\ upx
    /\ compressed # {}
    /\ \E i \in Staged : UpxAsked(i) /\ Target(files[i]) \in DOMAIN before.disk

\* C17: when resolve_unknown_libraries has been set to false, package() does
\* not run phase 3: it reads no import table (the sets of the closure stay
\* empty and no error of a read is returned), appends no staging entry, and
\* when it returns ok into an empty output directory the files of the output
\* tree are exactly output_root/dest of the registered entries, whatever
\* their files import.
C17_NoClosureWhenSwitchedOff ==
    ~resolve_unknown_libraries =>
        /\ pc \notin {"scan", "drain"}
        /\ result.phase \notin {"scan", "drain"}
        /\ result.kind # "ParseFailed"
        /\ known_libraries = {} /\ unknown_libraries = {}
        /\ Len(files) = registered
        /\ pc = "ok" => /\ created = {Target(files[i]) : i \in 1..registered}
                        /\ OutputTree = created

\* package() returned ok with the switch off for a registered executable
\* whose import table names a library of the sysroot.
C17_Witness ==
    /\ ~resolve_unknown_libraries
    /\ pc = "ok"
    /\ \E i \in Staged : IsBinary(files[i]) /\ "a.dll" \in ImportsOf(files[i])

\* A step of add_file or of package(): the staging list keeps its entries
\* in place, a new entry goes to its end, and the loops of phase 2 and of
\* phase 4 start at the first entry and go to the next one.
C18_StagingStep ==
    /\ Len(files') \in {Len(files), Len(files) + 1}
    /\ \A i \in Staged :
          /\ files'[i].dest = files[i].dest
          /\ files'[i].flags = files[i].flags
          /\ \/ files'[i].src = files[i].src
             \/ files[i].src = None /\ pc = "lookup" /\ i = idx
    /\ Len(files') > Len(files) =>
          \/ pc = "config" /\ Len(files) = registered /\ registered' = registered + 1
          \/ pc = "drain" /\ registered' = registered
    /\ registered' # registered => Len(files') > Len(files)
    /\ \A ph \in {"lookup", "copy"} :
          /\ pc # ph /\ pc' = ph => idx' = 1
          /\ pc = ph /\ pc' = ph => idx <= Len(files) /\ idx' = idx + 1
          /\ pc = ph /\ pc' = "err" => idx <= Len(files) /\ idx' = idx
          /\ pc = ph /\ pc' \notin {ph, "err"} => idx = Len(files) + 1
    /\ pc = "copy" =>
          created' \ created \subseteq {Target(files[i]) : i \in {idx} \cap Staged}

\* C18: the staging list is append-only and processed in insertion order:
\* no step of add_file or package() removes or reorders entries or changes
\* the dest or the flags of an entry (phase 2 sets the src of the entry it is
\* at); the registered entries keep their order and come before every entry
\* the closure appends; phase 2 and phase 4 go through the entries by
\* increasing index.
C18_AppendOnlyInOrder == [][C18_StagingStep]_vars

\* package() returned ok with two different registered entries, one of them
\* resolved by phase 2, and an entry appended by the closure.
C18_Witness ==
    /\ pc = "ok"
    /\ registered = 2 /\ files[1] # files[2]
    /\ \E i \in 1..2 : before.files[i].src = None
    /\ Appended # {}

\* The import names of the worlds that are DLLs of Windows: two system DLLs
\* and an API set.
WindowsNames == {"KERNEL32.dll", "user32", ApiSetName}

\* The staged files the closure scans.
Scanned == {i \in Staged : IsBinary(files[i]) /\ files[i].src # None}

DashTokens(s) == NonEmptyOnly(split(s, "-"))

AllDigits(s) == s # "" /\ \A k \in 1..Len(s) : Ch(s, k) \in DigitSet

\* s is made of alphanumeric characters and hyphens.
NameChars(s) == \A k \in 1..Len(s) : Ch(s, k) = "-" \/ is_alphanumeric(Ch(s, k))

DigitValue(c) == (CHOOSE k \in 1..Len(Digits) : Ch(Digits, k) = c) - 1

RECURSIVE Value(_)
\* The number a string of at most nine digits denotes.
Value(s) == IF s = "" THEN 0 ELSE 10 * Value(DropLast(s, 1)) + DigitValue(Ch(s, Len(s)))

\* s is a decimal integer written with digits only.
DigitsToken(s) == AllDigits(s)

\* s is a decimal integer of at most 4294967295, with an optional + in front.
U32Token(s) ==
    LET body == IF StartsWithStr(s, "+") THEN DropFirst(s, 1) ELSE s
        sig  == trim_start_matches(body, "0")
    IN  /\ AllDigits(body)
        /\ \/ Len(sig) < 10
           \/ /\ Len(sig) = 10
              /\ \/ Value(DropLast(sig, 1)) < 429496729
                 \/ Value(DropLast(sig, 1)) = 429496729 /\ DigitValue(Ch(sig, 10)) <= 5

\* body is alphanumeric characters and hyphens, then an l, then exactly three
\* tokens between dashes, which are integers written with digits only (plain)
\* or integers that fit 32 bits, with an optional + (not plain).
LevelForm(body, plain) ==
    \E k \in Positions(body, "l") :
        /\ NameChars(SubSeq(body, 1, k - 1))
        /\ Len(DashTokens(DropFirst(body, k))) = 3
        /\ \A t \in 1..3 : IF plain THEN DigitsToken(DashTokens(DropFirst(body, k))[t])
                                    ELSE U32Token(DashTokens(DropFirst(body, k))[t])

\* The grammar as it is stated: .dll at most once, digits only.
MatchesStatedGrammar(name) ==
    /\ StartsWithStr(name, "api-") \/ StartsWithStr(name, "ext-")
    /\ \/ LevelForm(DropFirst(name, 4), TRUE)
       \/ /\ EndsWithStr(name, ".dll")
          /\ LevelForm(DropLast(DropFirst(name, 4), 4), TRUE)

RECURSIVE WithoutDlls(_)
\* s without the .dll suffixes at its end, however many.
WithoutDlls(s) == IF EndsWithStr(s, ".dll") THEN WithoutDlls(DropLast(s, 4)) ELSE s

\* The grammar, amended: any number of .dll, integers that fit 32 bits.
MatchesAmendedGrammar(name) ==
    /\ StartsWithStr(name, "api-") \/ StartsWithStr(name, "ext-")
    /\ LevelForm(WithoutDlls(DropFirst(name, 4)), FALSE)

StatedApiSets == {n \in ApiSetTests : MatchesStatedGrammar(n)}

AmendedApiSets == {n \in ApiSetTests : MatchesAmendedGrammar(n)}

SameButCase(a, b) == to_ascii_lowercase(a) = to_ascii_lowercase(b)

\* C21: both classifiers are case-insensitive: two import names that differ
\* only in letter case get the same answer from is_system_dll and from
\* is_api_set_dll, and the scan of the closure treats them alike.
C21_ClassifiersIgnoreCase ==
    \A i \in Scanned : \A a, b \in ImportsOf(files[i]) :
        SameButCase(a, b) =>
            /\ is_system_dll(a) = is_system_dll(b)
            /\ is_api_set_dll(a) = is_api_set_dll(b)
            /\ pc = "drain" => /\ a \in unknown_libraries <=> b \in unknown_libraries
                               /\ a \in known_libraries <=> b \in known_libraries

\* The names the allow-list of a system classifier holds at least.
MinimumSystemDlls ==
    { "kernel32", "ntdll", "user32", "gdi32", "advapi32", "ole32", "oleaut32", "shell32",
      "shlwapi", "comctl32", "comdlg32", "winspool", "version", "cfgmgr32", "kernelbase",
      "win32u", "rpcrt4", "userenv", "setupapi", "iphlpapi", "ws2_32", "wsock32", "dnsapi",
      "crypt32", "bcrypt", "ncrypt", "imm32", "usp10", "opengl32", "gdiplus", "msimg32",
      "msvfw32", "winmm", "hid", "d3d11", "dxgi", "dwmapi", "mf", "mfplat", "mfreadwrite",
      "avicap32", "msvcrt" }

\* The suffixes that are stripped: .dll, repeatedly, and then .drv, repeatedly
\* (up to two of them).
StrippedSuffixes == {"", ".dll", ".drv", ".dll.dll", ".drv.drv", ".drv.dll"}

\* The lower-case spellings of the names of the allow-list with a suffix.
SystemSpellings == {s \o e : s \in SystemDlls, e \in StrippedSuffixes}

\* The import names of the worlds.
CaseNames == UNION UNION {CaseTables(f) : f \in SourceFiles}

StatedEnvironments ==
    [t \in {"aarch64-pc-windows-gnullvm", "i686-pc-windows-gnu", "x86_64-pc-windows-gnu",
            "x86_64-pc-windows-gnullvm", "x86_64-uwp-windows-gnu"} |->
        CASE t = "aarch64-pc-windows-gnullvm" -> "ClangArm64"
          [] t = "i686-pc-windows-gnu"        -> "Mingw32"
          [] t = "x86_64-pc-windows-gnu"      -> "Mingw64"
          [] t = "x86_64-pc-windows-gnullvm"  -> "Clang64"
          [] t = "x86_64-uwp-windows-gnu"     -> "Ucrt64"]

\* C23: once the environment of the target triple is chosen, it is the
\* environment the table of five triples gives, spelled exactly; every other
\* triple (the -msvc ones, the other UWP ones, i586, thumbv7a, an upper-case
\* spelling, a string that is no triple) is unsupported and the command fails
\* with TripleUnsupported; the environment is never Msys or Clang32.
C23_TripleMapping ==
    environment # NotChosen =>
        /\ environment = IF target \in DOMAIN StatedEnvironments
                         THEN StatedEnvironments[target] ELSE Unsupported
        /\ environment \notin {"Msys", "Clang32"}
        /\ environment = Unsupported =>
              pc = "err" /\ result.kind = "TripleUnsupported" /\ result.path = target
        /\ environment # Unsupported => pc # "err" \/ result.kind # "TripleUnsupported"

\* A 32-bit UWP GNU target was given and rejected.
C23_Witness ==
    /\ target = "i686-uwp-windows-gnu"
    /\ environment = Unsupported
    /\ result.kind = "TripleUnsupported"

\* The copy loop is at an entry that passes its two requirements: dest is
\* relative and src is not under the Windows directory.
AtCopiedEntry ==
    /\ pc = "copy" /\ idx <= Len(files)
    /\ is_relative(files[idx].dest)
    /\ files[idx].src # None
    /\ ~InSystemDirectory(files[idx].src)

\* One step of phase 4, as the existence check makes it.
C24_CopyStep ==
    /\ pc = "copy" =>
          \A k \in DOMAIN disk : k \in DOMAIN disk' /\ disk'[k] = disk[k]
    /\ AtCopiedEntry /\ exists(join(out_dir, files[idx].dest)) =>
          /\ disk' = disk /\ dirs' = dirs
          /\ created' = created /\ compressed' = compressed
          /\ pc' = "copy" /\ result' = result /\ idx' = idx + 1
    /\ AtCopiedEntry /\ created' # created =>
          /\ created' = created \cup {Target(files[idx])}
          /\ Target(files[idx]) \notin DOMAIN disk
          /\ \A j \in 1..(idx - 1) : Target(files[j]) # Target(files[idx])
          /\ disk'[Target(files[idx])].data = disk[Key(files[idx].src)].data

\* C24: phase 4 never overwrites. No step of it changes or removes a file
\* that exists; an entry whose output_root/dest exists when the loop reaches
\* its copy (from before the run, or copied for an earlier entry) is skipped
\* with no copy, no compression and no error; and a file is only created
\* for the first entry with its dest, with the content of that entry's src.
C24_NeverOverwrites == [][C24_CopyStep]_vars

\* The loop went past a second entry with the dest of an earlier one and
\* another src: the file this run made holds the content of the first.
C24_Witness ==
    /\ pc = "copy"
    /\ \E i, j \in Staged :
          /\ i < j /\ j < idx
          /\ Target(files[i]) = Target(files[j])
          /\ Key(files[i].src) # Key(files[j].src)
          /\ Target(files[i]) \in created
          /\ disk[Target(files[i])].data = disk[Key(files[i].src)].data
          /\ disk[Target(files[i])].data # disk[Key(files[j].src)].data

\* The cursor value the loop sets after a scan of a list of n entries.
CursorFor(n) == IF n = 0 THEN 0 ELSE n - 1

\* One step of a run of package(), as the closure's cursor makes it.
C25_CursorStep ==
    /\ pc = "scan" /\ reads = <<>> => files_to_copy_offset = 0
    /\ pc = "scan" /\ pc' = "drain" =>
          /\ files_to_copy_offset' = CursorFor(Len(files))
          /\ has_unknown' = (unknown_libraries' # {})
          /\ reads # <<>> =>
                /\ Len(reads) >= 1 /\ Len(files) > Len(reads)
                /\ files_to_copy_offset + 1 = Len(reads)
                /\ {i \in 1..Len(files) : reads'[i] > ReadCount(i)}
                      = {i \in Len(reads)..Len(files) : IsBinary(files[i])}
                /\ \A i \in (Len(reads) + 1)..Len(files) : IsBinary(files[i])
    /\ pc = "drain" =>
          /\ files_to_copy_offset' = files_to_copy_offset
          /\ has_unknown' = has_unknown
          /\ reads' = reads
          /\ pc' = "scan" => has_unknown
          /\ pc' = "copy" => ~has_unknown
          /\ pc' = "drain" => has_unknown /\ Len(files') = Len(files) + 1
    /\ runs' = runs => files_to_copy_offset' >= files_to_copy_offset
    /\ \A i \in DOMAIN reads' : reads'[i] <= 2
    /\ resolve_unknown_libraries /\ pc' \in {"copy", "ok"} =>
          /\ Len(reads') = Len(files')
          /\ \A i \in 1..Len(files') :
                IF IsBinary(files'[i]) THEN reads'[i] \in {1, 2} ELSE reads'[i] = 0

\* C25: the closure's cursor starts at 0, is set after each scan to
\* max(0, len - 1) for the length the list has before the drain, and never
\* decreases in a run; a pass after the first reads the imports of exactly
\* the entries the drain before it appended (all LIB) and of the entry that
\* was last before that drain (when it is LIB or EXE); when the closure is
\* over every LIB or EXE entry was read once or twice and no other entry was
\* read; the loop goes on after a drain exactly when the scan before it left
\* a name in unknown_libraries.
C25_CursorAndPasses == [][C25_CursorStep]_vars

\* The closure is over after more than one pass: one entry was read twice
\* and another once.
C25_Witness ==
    /\ pc = "copy"
    /\ files_to_copy_offset > 0
    /\ \E i, j \in DOMAIN reads : reads[i] = 2 /\ reads[j] = 1

\* The indices of the entries this run of package() appended.
AppendedNow == {i \in Staged : i > Len(before.files)}

\* C26: the closure never stages a library twice. No two entries a run of
\* package() appended carry the same import name, and no appended entry has
\* as its src the file that is the src of another staged LIB or EXE entry.
C26_NoLibraryStagedTwice ==
    runs >= 1 =>
        \A i \in AppendedNow :
            /\ \A j \in AppendedNow : j # i => files[j].dest # files[i].dest
            /\ \A j \in Staged :
                  j # i /\ IsBinary(files[j]) /\ files[j].src # None =>
                      Key(files[j].src) # Key(files[i].src)

\* Whether the file or directory with key k lies under the output directory.
InsideOutputRoot(k) == starts_with(k, Key(out_dir) \o "/")

\* C27: every file package() creates lies inside the output root: each is
\* output_root/dest of an entry that passed the checks of phase 4, and it is
\* a descendant of output_root, also when dest holds parent-directory
\* components; the directories created for it are the output root, its
\* ancestors or lie inside it.
C27_CreatedInsideOutputRoot ==
    /\ \A k \in created : InsideOutputRoot(k)
    /\ runs >= 1 =>
          \A k \in DOMAIN disk \ DOMAIN before.disk : InsideOutputRoot(k)

\* C28: package() never panics. No run ends in the panic "should be
\* resolved, but it is not" of phase 3 or phase 4: once phase 2 is over
\* without an error every staged entry has a src, and so has every entry the
\* closure appends, with the closure switched on or off.
C28_NeverPanics ==
    /\ result.kind # "panic"
    /\ AfterLookup => \A i \in Staged : files[i].src # None
    /\ pc = "lookup" => \A i \in 1..(idx - 1) : i \in Staged => files[i].src # None

\* package() returned ok for a list in which an entry was registered without
\* a src and to which the closure appended an entry.
C28_Witness ==
    /\ pc = "ok"
    /\ \E i \in 1..Len(before.files) : before.files[i].src = None
    /\ Len(files) > Len(before.files)

\* The closure's loop did not end within the bound of the staging list.
Unbounded == Error("Unbounded", "the staging list grows beyond the bound", "")

RECURSIVE DrainAll(_, _)
\* The drain loop of phase 3 over the set names, in one of the orders the
\* hash set may yield: the list with the entries appended, or the error.
DrainAll(list, names) ==
    IF names = {} THEN [files |-> list, err |-> NoResult]
    ELSE LET library == CHOOSE n \in names : TRUE
         IN  IF lookup_msys2_file(library) = NotFound
             THEN [files |-> list, err |-> Error("LookupFailed", "missing", library)]
             ELSE DrainAll(Append(list, NewLibrary(lookup_msys2_file(library), library)),
                           names \ {library})

RECURSIVE ClosureFrom(_, _, _, _, _)
\* The loop of phase 3 from the start of a pass, with the cursor set to
\* len - back after each scan: the final list, the error if there is one, and
\* marks, the length the list had before each drain.
ClosureFrom(list, known, offset, back, marks) ==
    LET st == ScanFrom([known |-> known, unknown |-> {}, err |-> NoResult],
                       SubSeq(list, offset + 1, Len(list)))
    IN  IF st.err # NoResult THEN [files |-> list, err |-> st.err, marks |-> marks]
        ELSE IF st.unknown = {} THEN [files |-> list, err |-> NoResult, marks |-> marks]
        ELSE IF Len(list) + Cardinality(st.unknown) > MaxStaged
        THEN [files |-> list, err |-> Unbounded, marks |-> marks]
        ELSE LET drained == DrainAll(list, st.unknown)
             IN  IF drained.err # NoResult
                 THEN [files |-> drained.files, err |-> drained.err, marks |-> marks]
                 ELSE ClosureFrom(drained.files, st.known, saturating_sub(Len(list), back),
                                  back, Append(marks, Len(list)))

\* The staging list as phase 2 left it: the entries that were registered.
AfterPhase2 == SubSeq(files, 1, Len(before.files))

\* The loop with the cursor set to len, and the loop as it is implemented.
CursorAtLen == ClosureFrom(AfterPhase2, {}, 0, 0, <<>>)

CursorAtLenLessOne == ClosureFrom(AfterPhase2, {}, 0, 1, <<>>)

\* Whether the lists a and b are equal up to the order of the entries that
\* one drain appended; marks holds the length of the list before each drain.
SameUpToDrainOrder(a, b, marks) ==
    /\ Len(a) = Len(b)
    /\ \A i \in 1..Len(a) :
          LET from == {m \in Range(marks) : m < i}
              lo   == IF from = {} THEN 0 ELSE CHOOSE m \in from : \A n \in from : n <= m
              to   == {m \in Range(marks) : m >= i}
              hi   == IF lo = 0 /\ marks # <<>> THEN marks[1]
                      ELSE IF to = {} THEN Len(a)
                      ELSE CHOOSE m \in to : \A n \in to : m <= n
          IN  IF lo = 0 /\ marks # <<>> THEN a[i] = b[i]
              ELSE IF marks = <<>> THEN a[i] = b[i]
              ELSE \E j \in (lo + 1)..hi : a[i] = b[j]

\* The closure of this run is over, with or without an error.
ClosureOver ==
    /\ resolve_unknown_libraries
    /\ \/ pc = "copy" /\ idx = 1
       \/ pc = "err" /\ result.phase \in {"scan", "drain"}

\* C29: re-scanning the entry that was last before a drain is redundant. When
\* the closure of a run is over, the loop with the cursor set to len instead
\* of len - 1 ends the same way from the same registered entries: without an
\* error and with the same staging list up to the order of the entries one
\* drain appended, or with an error of the same kind.
C29_RescanIsRedundant ==
    ClosureOver =>
        IF pc = "copy"
        THEN /\ CursorAtLen.err = NoResult
             /\ SameUpToDrainOrder(files, CursorAtLen.files, CursorAtLen.marks)
        ELSE CursorAtLen.err.kind = result.kind

\* The loop as a function agrees with the loop as package() runs it.
ClosureFromAgrees ==
    ClosureOver =>
        IF pc = "copy"
        THEN /\ CursorAtLenLessOne.err = NoResult
             /\ SameUpToDrainOrder(files, CursorAtLenLessOne.files, CursorAtLenLessOne.marks)
        ELSE CursorAtLenLessOne.err.kind = result.kind

\* This run of package() failed in the copy loop, at the entry at idx.
FailedInCopy == pc = "err" /\ result.phase = "copy"

\* The run before this one failed when the compressor was run on the file at
\* prior.path.
CompressorFailedBefore == runs >= 2 /\ prior.kind = "ExternalToolFailed"

\* The index of the entry the run before this one failed at: the first entry
\* with that destination.
FailedEntry ==
    CHOOSE k \in Staged :
        /\ Target(files[k]) = Key(prior.path)
        /\ \A j \in 1..(k - 1) : Target(files[j]) # Key(prior.path)

=============================================================================
